---- MODULE Spec2Model ----
(***************************************************************************)
(* A model of tailmon: the tshttp.Server lifecycle (init guard, Start,     *)
(* the authentication polling goroutine, the HTTP accept goroutine and     *)
(* Shutdown), the proxy request filter of cmd/tailmon and the target       *)
(* enumerator of cmd/tailmon-discover.                                     *)
(*                                                                         *)
(* Strings the code inspects character by character (host names, server    *)
(* names) are sequences of one-character strings; strings the code only    *)
(* compares as a whole (request paths, log messages) are TLA+ strings.     *)
(***************************************************************************)
EXTENDS Integers, Sequences, FiniteSets, TLC

\* ------------------------------------------------------------------ bounds
\* Start calls made on one Server.
MaxStarts == 2
\* Shutdown calls made on one Server.
MaxShutdowns == 2
\* Requests one accept loop handles.
MaxRequests == 1
\* Peers the overlay reports to tailmon-discover.
MaxPeers == 3
\* Requests the proxy handler serves.
MaxProxyRequests == 3
\* Requests the discovery handler serves.
MaxDiscoverRequests == 2
\* Peers the overlay reports while the discovery handler serves.
MaxHandlerPeers == 1
\* Characters of an exporter argument.
MaxValueLen == 4

\* --------------------------------------------------------------- constants
\* tsnet Listen("tcp", ":80")
ListenPort == 80
\* context.WithTimeout(..., 1*time.Second) of the shutdown closure
ShutdownTimeout == 1
\* formatAddr(v.TailscaleIPs[0], 80)
ScrapePort == 80
\* http.StatusNotFound
StatusNotFound == 404
\* http.StatusInternalServerError
StatusInternalServerError == 500
\* http.StatusOK, which net/http sends when a handler writes no status
StatusOK == 200

\* The Servers a process may construct, and the goroutines that call their
\* exported methods (main, and the goroutines main starts for Shutdown).
Servers == {"a", "b"}
Callers == {"g1", "g2"}
CallerRank == [g1 |-> 1, g2 |-> 2]

VARIABLES
    managers,   \* the Servers this process has constructed
    name,       \* Server.Name
    exited,     \* the process was terminated by Logger.Fatal
    once,       \* Server.initOnce: "new", "running" or "done"
    mkdirs,     \* how often init created the state directory
    built,      \* how often init constructed a tsnet.Server
    tailnet,    \* Server.tailnet: NilHandle or the handle init constructed
    observed,   \* the handles callers were given or used
    cancel,     \* Server.cancel: 0 is nil, else the session its closure captured
    sess,       \* per Server, the sessions its successful binds created
    pollers,    \* per Server, the polling goroutines its Start calls launched
    tsCloses,   \* how often tsnet.Server.Close was called
    logs,       \* per Server, how often each message was logged
    calls,      \* per Server, how often Start was called and Shutdown ran the closure
    returns,    \* per Server, how often Start returned nil and an error
    frame,      \* per caller goroutine, where it is
    \* cmd/tailmon-discover
    peers,      \* status.Peer: the peers the overlay reports, by node key
    order,      \* the order in which the latest `range status.Peer` met them
    found,      \* what the latest findTailmonEndpoints call returned
    \* cmd/tailmon
    proxyName,  \* the name NewProxyHandler was given
    requests,   \* the paths of the requests the proxy handler has served
    proxyLog,   \* what the proxy handler and its reverse proxy have logged
    upstream,   \* the requests that reached the upstream
    responses,  \* the responses the proxy handler has written
    \* cmd/tailmon-discover, the HTTP handler
    dRequests,  \* the requests the discovery handler has served
    dLog,       \* what the discovery handler has logged
    dResponses, \* the responses the discovery handler has written
    \* cmd/tailmon, the exporter arguments
    value,      \* the command-line argument newExporter is given
    parsed      \* what newExporter returned for it

tshttpVars == <<managers, name, exited, once, mkdirs, built, tailnet, observed,
                cancel, sess, pollers, tsCloses, logs, calls, returns, frame>>
discoverVars == <<peers, order, found>>
proxyVars == <<proxyName, requests, proxyLog, upstream, responses>>

handlerVars == <<dRequests, dLog, dResponses>>
exporterVars == <<value, parsed>>

vars == <<tshttpVars, discoverVars, proxyVars, handlerVars, exporterVars>>

\* ------------------------------------------------------------ tshttp: init
Letters == {"a", "b", "c", "d", "e", "f", "g", "h", "i", "j", "k", "l", "m",
            "n", "o", "p", "q", "r", "s", "t", "u", "v", "w", "x", "y", "z"}
Digits == {"0", "1", "2", "3", "4", "5", "6", "7", "8", "9"}

\* strings.Map over the runes of path: letters, digits and '-' are kept,
\* every other rune becomes '_'.
sanitize(path) ==
    [i \in 1..Len(path) |->
        IF path[i] \in Letters \/ path[i] \in Digits \/ path[i] = "-"
        THEN path[i] ELSE "_"]

\* The -state directory every Server of the process is given.
StateDir == <<"v">>
Unknown == <<"u", "n", "k", "n", "o", "w", "n">>

\* s.Name after init's default.
NameOrDefault(n) == IF n = <<>> THEN Unknown ELSE n
\* s.StateDir after init's default.
StateDirOrDefault(d) == IF d = <<>> THEN <<".">> ELSE d
\* fmt.Sprintf("%s/data-%s", s.StateDir, sanitize(s.Name))
StateSubdir(d, n) ==
    StateDirOrDefault(d) \o <<"/", "d", "a", "t", "a", "-">> \o sanitize(NameOrDefault(n))

\* A nil *tsnet.Server.
NilHandle == [id |-> 0, Dir |-> <<>>, Hostname |-> <<>>]

\* The tsnet.Server init constructs; id tells one construction from another.
NewHandle(id, n) ==
    [id |-> id, Dir |-> StateSubdir(StateDir, n), Hostname |-> NameOrDefault(n)]

\* os.MkdirAll: the directory is created, was there already (not an error), or
\* cannot be created (Logger.Fatal, which ends the process).
MkdirResults == {"created", "exists", "failed"}

\* ---------------------------------------------------------------- logging
\* The messages Start, Shutdown and the accept goroutine log; logs counts
\* them. What a polling goroutine logs is kept with the goroutine (its `out`
\* is what its latest step logged), since its loop logs without bound.
LogMessages == {"tshttp init", "tailnet starting", "listen", "serving",
                "shutting down", "http.Serve", "shutdown"}

RECURSIVE LogSeq(_, _)
LogSeq(l, msgs) ==
    IF msgs = <<>> THEN l
    ELSE LogSeq([l EXCEPT ![Head(msgs)] = @ + 1], Tail(msgs))

\* logger.<Level>(msg) for each msg of msgs, in order, on Server s's logger.
Log(s, msgs) == logs' = [logs EXCEPT ![s] = LogSeq(@, msgs)]

\* ----------------------------------------------------------------- frames
IdleFrame == [pc |-> "idle", srv |-> "a", k |-> 0, resume |-> "idle"]

Goto(c, newpc) == frame' = [frame EXCEPT ![c].pc = newpc]
Return(c) == frame' = [frame EXCEPT ![c] = IdleFrame]

\* Goroutine c may call a method of Server s. Idle goroutines are alike, so of
\* two idle ones the first makes the next call.
CanCall(c, s) ==
    /\ ~exited /\ frame[c].pc = "idle" /\ s \in managers
    /\ \A e \in Callers : frame[e].pc = "idle" => CallerRank[c] <= CallerRank[e]

\* OnceDo with the guard a plain `if s.tailnet == nil` would give: a caller that
\* comes while init runs does not wait, and runs init too.
OnceDoUnguarded(c, s, after) ==
    IF once[s] # "done"
    THEN /\ once' = [once EXCEPT ![s] = "running"]
         /\ frame' = [frame EXCEPT ![c] =
                         [pc |-> "init", srv |-> s, k |-> 0, resume |-> after]]
    ELSE /\ once' = once
         /\ frame' = [frame EXCEPT ![c] =
                         [pc |-> after, srv |-> s, k |-> 0, resume |-> "idle"]]

\* OnceDo with one sync.Once for the whole process (a package-level variable)
\* in place of the field s.initOnce.
OnceDoProcessWide(c, s, after) ==
    /\ \A r \in Servers : once[r] # "running"
    /\ IF \A r \in Servers : once[r] = "new"
       THEN /\ once' = [once EXCEPT ![s] = "running"]
            /\ frame' = [frame EXCEPT ![c] =
                            [pc |-> "init", srv |-> s, k |-> 0, resume |-> after]]
       ELSE /\ once' = once
            /\ frame' = [frame EXCEPT ![c] =
                            [pc |-> after, srv |-> s, k |-> 0, resume |-> "idle"]]

\* sync.Once.Do(s.init) as seen by the calling goroutine c, which goes on at
\* `after` once init has run: the first caller runs init, a caller that comes
\* while init runs waits for it, a later caller skips it.
OnceDo(c, s, after) ==
    /\ once[s] # "running"
    /\ IF once[s] = "new"
       THEN /\ once' = [once EXCEPT ![s] = "running"]
            /\ frame' = [frame EXCEPT ![c] =
                            [pc |-> "init", srv |-> s, k |-> 0, resume |-> after]]
       ELSE /\ once' = once
            /\ frame' = [frame EXCEPT ![c] =
                            [pc |-> after, srv |-> s, k |-> 0, resume |-> "idle"]]

\* Server.init, run by the goroutine that won the Once.
InitBody(c) ==
    /\ ~exited /\ frame[c].pc = "init"
    /\ LET s == frame[c].srv IN
       \E r \in MkdirResults :
          /\ mkdirs' = [mkdirs EXCEPT ![s] = @ + 1]
          /\ IF r = "failed"
             THEN /\ exited' = TRUE
                  /\ Log(s, <<"tshttp init">>)
                  /\ UNCHANGED <<name, built, tailnet, once, frame>>
             ELSE /\ name' = [name EXCEPT ![s] = NameOrDefault(@)]
                  /\ built' = [built EXCEPT ![s] = @ + 1]
                  /\ tailnet' = [tailnet EXCEPT ![s] = NewHandle(built[s] + 1, name[s])]
                  /\ once' = [once EXCEPT ![s] = "done"]
                  /\ Goto(c, frame[c].resume)
                  /\ Log(s, <<"tshttp init">>)
                  /\ UNCHANGED exited
    /\ UNCHANGED <<handlerVars, exporterVars, discoverVars, proxyVars, managers, observed, cancel, sess, pollers, tsCloses, calls, returns>>

\* Server.Tailnet: the call, up to the Once.
TailnetCall(c, s) ==
    /\ CanCall(c, s)
    /\ OnceDo(c, s, "t_ret")
    /\ UNCHANGED <<handlerVars, exporterVars, discoverVars, proxyVars, managers, name, exited, mkdirs, built, tailnet, observed,
                   cancel, sess, pollers, tsCloses, logs, calls, returns>>

\* Server.Tailnet: return s.tailnet.
TailnetReturn(c) ==
    /\ ~exited /\ frame[c].pc = "t_ret"
    /\ LET s == frame[c].srv IN
       /\ observed' = [observed EXCEPT ![s] = @ \cup {tailnet[s]}]
       /\ Return(c)
    /\ UNCHANGED <<handlerVars, exporterVars, discoverVars, proxyVars, managers, name, exited, once, mkdirs, built, tailnet,
                   cancel, sess, pollers, tsCloses, logs, calls, returns>>

\* ----------------------------------------------------------- tshttp: Start
\* A polling goroutine as `go func()` leaves it: it has yet to ask for the
\* LocalClient, and has logged nothing. Its pc is "client", "poll" (in the
\* loop), "returned" (no LocalClient) or "done" (it saw Running and left the
\* loop); out is what its latest step logged.
NewPoller == [pc |-> "client", out |-> <<>>]

\* What Listen returned, before the http.Server exists.
NewSession ==
    [port |-> ListenPort, ln |-> "open", http |-> "none", serve |-> "none",
     served |-> 0, shutdowns |-> 0, timeout |-> 0, closes |-> 0]

\* Server.Start: the call, up to the Once.
StartCall(c, s) ==
    /\ CanCall(c, s)
    /\ calls[s].start < MaxStarts
    /\ calls' = [calls EXCEPT ![s].start = @ + 1]
    /\ OnceDo(c, s, "s_go")
    /\ UNCHANGED <<handlerVars, exporterVars, discoverVars, proxyVars, managers, name, exited, mkdirs, built, tailnet, observed,
                   cancel, sess, pollers, tsCloses, logs, returns>>

\* StartPoller without the `go` statement (the goroutine being launched only
\* once the bind has succeeded).
StartPollerDeferred(c) ==
    /\ ~exited /\ frame[c].pc = "s_go"
    /\ Log(frame[c].srv, <<"tailnet starting">>)
    /\ Goto(c, "s_listen")
    /\ UNCHANGED <<handlerVars, exporterVars, discoverVars, proxyVars, managers, name, exited, once, mkdirs, built, tailnet, observed,
                   cancel, sess, pollers, tsCloses, calls, returns>>

\* Server.Start: logger.Info("tailnet starting") and the `go` statement of
\* the polling goroutine.
StartPoller(c) ==
    /\ ~exited /\ frame[c].pc = "s_go"
    /\ LET s == frame[c].srv IN
       /\ Log(s, <<"tailnet starting">>)
       /\ pollers' = [pollers EXCEPT ![s] = Append(@, NewPoller)]
    /\ Goto(c, "s_listen")
    /\ UNCHANGED <<handlerVars, exporterVars, discoverVars, proxyVars, managers, name, exited, once, mkdirs, built, tailnet, observed,
                   cancel, sess, tsCloses, calls, returns>>

\* StartListen with `s.cancel = ...` set before the bind is checked: a failed
\* bind leaves a closure behind.
StartListenCapturesFirst(c) ==
    /\ ~exited /\ frame[c].pc = "s_listen"
    /\ LET s == frame[c].srv IN
       /\ Log(s, <<"listen">>)
       /\ observed' = [observed EXCEPT ![s] = @ \cup {tailnet[s]}]
       /\ sess' = [sess EXCEPT ![s] = Append(@, NewSession)]
       /\ cancel' = [cancel EXCEPT ![s] = Len(sess[s]) + 1]
       /\ \E bound \in BOOLEAN :
             IF bound
             THEN /\ frame' = [frame EXCEPT ![c].pc = "s_serve", ![c].k = Len(sess[s]) + 1]
                  /\ returns' = returns
             ELSE /\ returns' = [returns EXCEPT ![s].err = @ + 1]
                  /\ Return(c)
    /\ UNCHANGED <<handlerVars, exporterVars, discoverVars, proxyVars, managers, name, exited, once, mkdirs, built, tailnet,
                   pollers, tsCloses, calls>>

\* StartListen that waits for the polling goroutine to see Running before it
\* binds.
StartListenWaitsForAuth(c) ==
    /\ ~exited /\ frame[c].pc = "s_listen"
    /\ LET s == frame[c].srv IN
       /\ \E i \in DOMAIN pollers[s] : pollers[s][i].pc = "done"
       /\ Log(s, <<"listen">>)
       /\ observed' = [observed EXCEPT ![s] = @ \cup {tailnet[s]}]
       /\ \E bound \in BOOLEAN :
             IF bound
             THEN /\ sess' = [sess EXCEPT ![s] = Append(@, NewSession)]
                  /\ frame' = [frame EXCEPT ![c].pc = "s_serve", ![c].k = Len(sess[s]) + 1]
                  /\ returns' = returns
             ELSE /\ sess' = sess
                  /\ returns' = [returns EXCEPT ![s].err = @ + 1]
                  /\ Return(c)
    /\ UNCHANGED <<handlerVars, exporterVars, discoverVars, proxyVars, managers, name, exited, once, mkdirs, built, tailnet,
                   cancel, pollers, tsCloses, calls>>

\* Server.Start: s.tailnet.Listen("tcp", ":80"); the bind succeeds or fails as
\* the overlay decides, and a failure is returned.
StartListen(c) ==
    /\ ~exited /\ frame[c].pc = "s_listen"
    /\ LET s == frame[c].srv IN
       /\ Log(s, <<"listen">>)
       /\ observed' = [observed EXCEPT ![s] = @ \cup {tailnet[s]}]
       /\ \E bound \in BOOLEAN :
             IF bound
             THEN /\ sess' = [sess EXCEPT ![s] = Append(@, NewSession)]
                  /\ frame' = [frame EXCEPT ![c].pc = "s_serve", ![c].k = Len(sess[s]) + 1]
                  /\ returns' = returns
             ELSE /\ sess' = sess
                  /\ returns' = [returns EXCEPT ![s].err = @ + 1]
                  /\ Return(c)
    /\ UNCHANGED <<handlerVars, exporterVars, discoverVars, proxyVars, managers, name, exited, once, mkdirs, built, tailnet,
                   cancel, pollers, tsCloses, calls>>

\* StartServe without the `go` statement of the accept goroutine.
StartServeNoLoop(c) ==
    /\ ~exited /\ frame[c].pc = "s_serve"
    /\ LET s == frame[c].srv
           k == frame[c].k
       IN /\ sess' = [sess EXCEPT ![s][k].http = "new"]
          /\ cancel' = [cancel EXCEPT ![s] = k]
          /\ returns' = [returns EXCEPT ![s].nil = @ + 1]
    /\ Return(c)
    /\ UNCHANGED <<handlerVars, exporterVars, discoverVars, proxyVars, managers, name, exited, once, mkdirs, built, tailnet, observed,
                   pollers, tsCloses, logs, calls>>

\* Server.Start after a successful bind: the http.Server is made, s.cancel is
\* set to the closure over this call's listener and http.Server, the accept
\* goroutine is launched, and nil is returned.
StartServe(c) ==
    /\ ~exited /\ frame[c].pc = "s_serve"
    /\ LET s == frame[c].srv
           k == frame[c].k
       IN /\ sess' = [sess EXCEPT ![s][k].http = "new", ![s][k].serve = "launched"]
          /\ cancel' = [cancel EXCEPT ![s] = k]
          /\ returns' = [returns EXCEPT ![s].nil = @ + 1]
    /\ Return(c)
    /\ UNCHANGED <<handlerVars, exporterVars, discoverVars, proxyVars, managers, name, exited, once, mkdirs, built, tailnet, observed,
                   pollers, tsCloses, logs, calls>>

\* ------------------------------------------------- the polling goroutine
BackendStates == {"NeedsLogin", "Running"}
AuthURLs == {"", "https://login"}
\* What lc.StatusWithoutPeers returns: an error, or a status.
StatusResults ==
    {[err |-> TRUE, BackendState |-> "", AuthURL |-> ""]} \cup
    [err : {FALSE}, BackendState : BackendStates, AuthURL : AuthURLs]

\* An entry a polling goroutine logs: the level, the message, and the
\* BackendState and the URL among its fields.
LogEntry(level, msg, state, url) ==
    [level |-> level, msg |-> msg, state |-> state, url |-> url]

\* s.tailnet.LocalClient(): on an error the goroutine logs it and returns.
PollClient(s, i) ==
    /\ ~exited /\ i \in DOMAIN pollers[s] /\ pollers[s][i].pc = "client"
    /\ \E ok \in BOOLEAN :
          pollers' = [pollers EXCEPT ![s][i] =
              IF ok THEN [@ EXCEPT !.pc = "poll"]
              ELSE [@ EXCEPT !.pc = "returned",
                             !.out = <<LogEntry("error", "LocalClient", "", "")>>]]
    /\ UNCHANGED <<handlerVars, exporterVars, discoverVars, proxyVars, managers, name, exited, once, mkdirs, built, tailnet, observed,
                   cancel, sess, tsCloses, logs, calls, frame, returns>>

\* Iteration without the `break`: Running is logged and the loop goes on.
IterationKeepsPolling(p, ss) ==
    LET status == LogEntry("debug", "status", ss.BackendState, ss.AuthURL) IN
    IF ss.err
    THEN [p EXCEPT !.out = <<LogEntry("error", "StatusWithoutPeers", "", "")>>]
    ELSE IF ss.BackendState = "Running"
    THEN [p EXCEPT !.out = <<status, LogEntry("info", "tailnet running", "", "")>>]
    ELSE IF ss.AuthURL # ""
    THEN [p EXCEPT !.out = <<status, LogEntry("error", "Needs authentication", "", ss.AuthURL)>>]
    ELSE [p EXCEPT !.out = <<status>>]

\* Iteration with `return` in place of `continue` when the query fails.
IterationStopsOnError(p, ss) ==
    LET status == LogEntry("debug", "status", ss.BackendState, ss.AuthURL) IN
    IF ss.err
    THEN [pc |-> "done", out |-> <<LogEntry("error", "StatusWithoutPeers", "", "")>>]
    ELSE IF ss.BackendState = "Running"
    THEN [pc |-> "done", out |-> <<status, LogEntry("info", "tailnet running", "", "")>>]
    ELSE IF ss.AuthURL # ""
    THEN [p EXCEPT !.out = <<status, LogEntry("error", "Needs authentication", "", ss.AuthURL)>>]
    ELSE [p EXCEPT !.out = <<status>>]

\* Iteration with the AuthURL check ahead of the Running check.
IterationAuthFirst(p, ss) ==
    LET status == LogEntry("debug", "status", ss.BackendState, ss.AuthURL)
        auth == IF ss.AuthURL # ""
                THEN <<LogEntry("error", "Needs authentication", "", ss.AuthURL)>>
                ELSE <<>>
    IN IF ss.err
       THEN [p EXCEPT !.out = <<LogEntry("error", "StatusWithoutPeers", "", "")>>]
       ELSE IF ss.BackendState = "Running"
       THEN [pc |-> "done",
             out |-> <<status>> \o auth \o <<LogEntry("info", "tailnet running", "", "")>>]
       ELSE [p EXCEPT !.out = <<status>> \o auth]

\* The poller after one iteration of the loop body in which
\* lc.StatusWithoutPeers returned ss.
Iteration(p, ss) ==
    LET status == LogEntry("debug", "status", ss.BackendState, ss.AuthURL) IN
    IF ss.err
    THEN [p EXCEPT !.out = <<LogEntry("error", "StatusWithoutPeers", "", "")>>]
    ELSE IF ss.BackendState = "Running"
    THEN [pc |-> "done", out |-> <<status, LogEntry("info", "tailnet running", "", "")>>]
    ELSE IF ss.AuthURL # ""
    THEN [p EXCEPT !.out = <<status, LogEntry("error", "Needs authentication", "", ss.AuthURL)>>]
    ELSE [p EXCEPT !.out = <<status>>]

\* One iteration of the polling loop, and the sleep that follows it when the
\* loop goes on.
Poll(s, i) ==
    /\ ~exited /\ i \in DOMAIN pollers[s] /\ pollers[s][i].pc = "poll"
    /\ \E ss \in StatusResults :
          pollers' = [pollers EXCEPT ![s][i] = Iteration(@, ss)]
    /\ UNCHANGED <<handlerVars, exporterVars, discoverVars, proxyVars, managers, name, exited, once, mkdirs, built, tailnet, observed,
                   cancel, sess, tsCloses, logs, calls, frame, returns>>

\* --------------------------------------------------- the accept goroutine
\* The goroutine starts: logger.Debug("serving") and the entry of
\* httpsrv.Serve(listen), which returns http.ErrServerClosed at once when
\* httpsrv.Shutdown was called before it.
ServeBegin(s, k) ==
    /\ ~exited /\ k \in DOMAIN sess[s] /\ sess[s][k].serve = "launched"
    /\ IF sess[s][k].http = "shutdown"
       THEN /\ sess' = [sess EXCEPT ![s][k].serve = "closed"]
            /\ Log(s, <<"serving", "shutting down">>)
       ELSE /\ sess' = [sess EXCEPT ![s][k].serve = "serving"]
            /\ Log(s, <<"serving">>)
    /\ UNCHANGED <<handlerVars, exporterVars, discoverVars, proxyVars, managers, name, exited, once, mkdirs, built, tailnet, observed,
                   cancel, pollers, tsCloses, calls, frame, returns>>

\* The accept loop accepts a connection and the handler serves its request.
ServeRequest(s, k) ==
    /\ ~exited /\ k \in DOMAIN sess[s]
    /\ sess[s][k].serve = "serving" /\ sess[s][k].http = "new" /\ sess[s][k].ln = "open"
    /\ sess[s][k].served < MaxRequests
    /\ sess' = [sess EXCEPT ![s][k].served = @ + 1]
    /\ UNCHANGED <<handlerVars, exporterVars, discoverVars, proxyVars, managers, name, exited, once, mkdirs, built, tailnet, observed,
                   cancel, pollers, tsCloses, logs, calls, frame, returns>>

\* httpsrv.Serve returns http.ErrServerClosed after httpsrv.Shutdown:
\* logger.Info("shutting down").
ServeClosed(s, k) ==
    /\ ~exited /\ k \in DOMAIN sess[s]
    /\ sess[s][k].serve = "serving" /\ sess[s][k].http = "shutdown"
    /\ sess' = [sess EXCEPT ![s][k].serve = "closed"]
    /\ Log(s, <<"shutting down">>)
    /\ UNCHANGED <<handlerVars, exporterVars, discoverVars, proxyVars, managers, name, exited, once, mkdirs, built, tailnet, observed,
                   cancel, pollers, tsCloses, calls, frame, returns>>

\* Accept fails while the http.Server is not shutting down (the overlay took
\* the listener away): httpsrv.Serve returns that error,
\* logger.Error("http.Serve").
ServeFailed(s, k) ==
    /\ ~exited /\ k \in DOMAIN sess[s]
    /\ sess[s][k].serve = "serving" /\ sess[s][k].http = "new"
    /\ sess' = [sess EXCEPT ![s][k].serve = "failed", ![s][k].ln = "closed"]
    /\ Log(s, <<"http.Serve">>)
    /\ UNCHANGED <<handlerVars, exporterVars, discoverVars, proxyVars, managers, name, exited, once, mkdirs, built, tailnet, observed,
                   cancel, pollers, tsCloses, calls, frame, returns>>

\* -------------------------------------------------------- tshttp: Shutdown
\* The goroutines that called s.Shutdown and have yet to read s.cancel.
Checking(s) == {d \in Callers : frame[d].pc = "sh_check" /\ frame[d].srv = s}

\* Server.Shutdown is called. The bound is on the calls that can still run
\* the closure; a call that finds s.cancel nil changes nothing and is free.
ShutdownCall(c, s) ==
    /\ CanCall(c, s)
    /\ calls[s].shutdown + Cardinality(Checking(s)) < MaxShutdowns
    /\ frame' = [frame EXCEPT ![c] = [pc |-> "sh_check", srv |-> s, k |-> 0, resume |-> "idle"]]
    /\ UNCHANGED <<handlerVars, exporterVars, discoverVars, proxyVars, managers, name, exited, once, mkdirs, built, tailnet, observed,
                   cancel, sess, pollers, tsCloses, logs, calls, returns>>

\* ShutdownCheck with the closure made to run once: a Shutdown that finds the
\* closure's http.Server already shut down returns.
ShutdownCheckOnce(c) ==
    /\ ~exited /\ frame[c].pc = "sh_check"
    /\ LET s == frame[c].srv IN
       IF cancel[s] # 0 /\ sess[s][cancel[s]].shutdowns = 0
       THEN /\ frame' = [frame EXCEPT ![c].pc = "c_http", ![c].k = cancel[s]]
            /\ calls' = [calls EXCEPT ![s].shutdown = @ + 1]
       ELSE /\ Return(c)
            /\ calls' = calls
    /\ UNCHANGED <<handlerVars, exporterVars, discoverVars, proxyVars, managers, name, exited, once, mkdirs, built, tailnet, observed,
                   cancel, sess, pollers, tsCloses, logs, returns>>

\* Server.Shutdown: `if s.cancel != nil { s.cancel() }`. With s.cancel nil the
\* call returns; else the closure s.cancel holds starts to run.
ShutdownCheck(c) ==
    /\ ~exited /\ frame[c].pc = "sh_check"
    /\ LET s == frame[c].srv IN
       IF cancel[s] # 0
       THEN /\ frame' = [frame EXCEPT ![c].pc = "c_http", ![c].k = cancel[s]]
            /\ calls' = [calls EXCEPT ![s].shutdown = @ + 1]
       ELSE /\ Return(c)
            /\ calls' = calls
    /\ UNCHANGED <<handlerVars, exporterVars, discoverVars, proxyVars, managers, name, exited, once, mkdirs, built, tailnet, observed,
                   cancel, sess, pollers, tsCloses, logs, returns>>

\* The closure: httpsrv.Shutdown(httpctx) under the 1 second deadline. The
\* http.Server stops accepting and closes the listener Serve registered.
CancelHTTP(c) ==
    /\ ~exited /\ frame[c].pc = "c_http"
    /\ LET s == frame[c].srv
           k == frame[c].k
       IN sess' = [sess EXCEPT ![s][k].http = "shutdown",
                               ![s][k].shutdowns = @ + 1,
                               ![s][k].timeout = ShutdownTimeout,
                               ![s][k].ln = IF sess[s][k].serve = "serving" THEN "closed" ELSE @]
    /\ Goto(c, "c_listen")
    /\ UNCHANGED <<handlerVars, exporterVars, discoverVars, proxyVars, managers, name, exited, once, mkdirs, built, tailnet, observed,
                   cancel, pollers, tsCloses, logs, calls, returns>>

\* The closure without its listen.Close().
CancelListenSkipped(c) ==
    /\ ~exited /\ frame[c].pc = "c_listen"
    /\ Goto(c, "c_tailnet")
    /\ UNCHANGED <<handlerVars, exporterVars, discoverVars, proxyVars, managers, name, exited, once, mkdirs, built, tailnet, observed,
                   cancel, sess, pollers, tsCloses, logs, calls, returns>>

\* The closure: listen.Close().
CancelListen(c) ==
    /\ ~exited /\ frame[c].pc = "c_listen"
    /\ LET s == frame[c].srv
           k == frame[c].k
       IN sess' = [sess EXCEPT ![s][k].ln = "closed", ![s][k].closes = @ + 1]
    /\ Goto(c, "c_tailnet")
    /\ UNCHANGED <<handlerVars, exporterVars, discoverVars, proxyVars, managers, name, exited, once, mkdirs, built, tailnet, observed,
                   cancel, pollers, tsCloses, logs, calls, returns>>

\* CancelTailnet with a polling loop that watches for the close: the
\* goroutines in the loop return.
CancelTailnetStopsPollers(c) ==
    /\ ~exited /\ frame[c].pc = "c_tailnet"
    /\ tsCloses' = [tsCloses EXCEPT ![frame[c].srv] = @ + 1]
    /\ pollers' = [pollers EXCEPT ![frame[c].srv] =
                      [i \in DOMAIN @ |-> IF @[i].pc = "poll"
                                          THEN [@[i] EXCEPT !.pc = "returned"] ELSE @[i]]]
    /\ Goto(c, "c_log")
    /\ UNCHANGED <<handlerVars, exporterVars, discoverVars, proxyVars, managers, name, exited, once, mkdirs, built, tailnet, observed,
                   cancel, sess, logs, calls, returns>>

\* The closure: s.tailnet.Close().
CancelTailnet(c) ==
    /\ ~exited /\ frame[c].pc = "c_tailnet"
    /\ tsCloses' = [tsCloses EXCEPT ![frame[c].srv] = @ + 1]
    /\ Goto(c, "c_log")
    /\ UNCHANGED <<handlerVars, exporterVars, discoverVars, proxyVars, managers, name, exited, once, mkdirs, built, tailnet, observed,
                   cancel, sess, pollers, logs, calls, returns>>

\* The closure: logger.Info("shutdown"); Shutdown returns.
CancelLog(c) ==
    /\ ~exited /\ frame[c].pc = "c_log"
    /\ Log(frame[c].srv, <<"shutdown">>)
    /\ Return(c)
    /\ UNCHANGED <<handlerVars, exporterVars, discoverVars, proxyVars, managers, name, exited, once, mkdirs, built, tailnet, observed,
                   cancel, sess, pollers, tsCloses, calls, returns>>

\* ------------------------------------------- tailmon-discover: endpoints
\* netip.Addr: bits is BitLen() (32 for an IPv4 address, 128 for an IPv6
\* one), val its value, text what String() prints.
Addr1 == [bits |-> 32, val |-> 1, text |-> <<"1", "0", "0", ".", "6", "4", ".", "0", ".", "1">>]
Addr2 == [bits |-> 32, val |-> 2, text |-> <<"1", "0", "0", ".", "6", "4", ".", "0", ".", "2">>]
Addr6 == [bits |-> 128, val |-> 1, text |-> <<"f", "d", "7", "a", ":", ":", "1">>]

\* netip.Addr.Is4
Is4(addr) == addr.bits = 32

\* netip.Addr.Less: by bit length first, then by value.
Less(a, b) == a.bits < b.bits \/ (a.bits = b.bits /\ a.val < b.val)

DigitChars == <<"0", "1", "2", "3", "4", "5", "6", "7", "8", "9">>

RECURSIVE Decimal(_)
\* fmt's %d of a number that is not negative.
Decimal(n) ==
    IF n < 10 THEN <<DigitChars[n + 1]>>
    ELSE Decimal(n \div 10) \o <<DigitChars[(n % 10) + 1]>>

\* formatAddr: "%s:%d" for an IPv4 address, "[%s]:%d" for any other.
formatAddr(addr, port) ==
    IF Is4(addr)
    THEN addr.text \o <<":">> \o Decimal(port)
    ELSE <<"[">> \o addr.text \o <<"]", ":">> \o Decimal(port)

\* prefix := "tailmon/"
Prefix == <<"t", "a", "i", "l", "m", "o", "n", "/">>

\* strings.HasPrefix
HasPrefix(s, p) == Len(s) >= Len(p) /\ SubSeq(s, 1, Len(p)) = p

\* strings.TrimPrefix
TrimPrefix(s, p) == IF HasPrefix(s, p) THEN SubSeq(s, Len(p) + 1, Len(s)) ELSE s

\* strings.Cut(s, sep) for a one-character sep: s around the first sep, or
\* s, "" and false when s holds no sep.
Cut(s, sep) ==
    IF \E i \in 1..Len(s) : s[i] = sep
    THEN LET i == CHOOSE j \in 1..Len(s) :
                      s[j] = sep /\ \A h \in 1..(j - 1) : s[h] # sep
         IN [before |-> SubSeq(s, 1, i - 1), after |-> SubSeq(s, i + 1, Len(s)), found |-> TRUE]
    ELSE [before |-> s, after |-> <<>>, found |-> FALSE]

NodeNameLabel == "__meta_tailmon_node_name"
ExporterNameLabel == "__meta_tailmon_exporter_name"
DNSNameLabel == "__meta_tailscale_dns_name"

\* Endpoint with the first address in place of v.TailscaleIPs[0] replaced by
\* the last one.
EndpointOfLastAddr(v) ==
    LET cut == Cut(TrimPrefix(v.HostName, Prefix), "/")
        exporter == IF cut.found THEN cut.before ELSE v.HostName
        node == IF cut.found THEN cut.after ELSE Unknown
        last == v.TailscaleIPs[Len(v.TailscaleIPs)]
    IN [ip |-> last,
        Targets |-> <<formatAddr(last, ScrapePort)>>,
        Labels |-> (NodeNameLabel :> node) @@ (ExporterNameLabel :> exporter)
                      @@ (DNSNameLabel :> v.DNSName)]

\* The Endpoint the loop body builds for a peer v it does not skip.
EndpointOf(v) ==
    LET cut == Cut(TrimPrefix(v.HostName, Prefix), "/")
        exporter == IF cut.found THEN cut.before ELSE v.HostName
        node == IF cut.found THEN cut.after ELSE Unknown
    IN [ip |-> v.TailscaleIPs[1],
        Targets |-> <<formatAddr(v.TailscaleIPs[1], ScrapePort)>>,
        Labels |-> (NodeNameLabel :> node) @@ (ExporterNameLabel :> exporter)
                      @@ (DNSNameLabel :> v.DNSName)]

RECURSIVE Collect(_, _)
\* `for _, v := range status.Peer`, the map being met in the order perm: the
\* endpoints appended, in that order.
Collect(status, perm) ==
    IF perm = <<>> THEN <<>>
    ELSE LET v == status[Head(perm)] IN
         IF ~HasPrefix(v.HostName, Prefix) THEN Collect(status, Tail(perm))
         ELSE IF Len(v.TailscaleIPs) = 0 THEN Collect(status, Tail(perm))
         ELSE <<EndpointOf(v)>> \o Collect(status, Tail(perm))

\* SortStable that leaves the endpoints as they were met.
SortStableSkipped(es) == es

RECURSIVE SortStable(_)
\* sort.SliceStable(endpoints, ip.Less): each endpoint goes behind those
\* already placed that are not greater than it.
SortStable(es) ==
    IF es = <<>> THEN <<>>
    ELSE LET n == Len(es)
             sorted == SortStable(SubSeq(es, 1, n - 1))
             e == es[n]
             at == Cardinality({i \in 1..Len(sorted) : ~Less(e.ip, sorted[i].ip)})
         IN SubSeq(sorted, 1, at) \o <<e>> \o SubSeq(sorted, at + 1, Len(sorted))

\* What tailnet.LocalClient() and lc.Status(ctx) come to: both succeed, or one
\* of them fails.
QueryResults == {"ok", "LocalClient", "Status"}

\* findTailmonEndpoints: query is how the two overlay calls went, status the
\* peers lc.Status reported, perm the order the range statement met them in.
findTailmonEndpoints(query, status, perm) ==
    IF query # "ok"
    THEN [endpoints |-> <<>>, err |-> query]
    ELSE [endpoints |-> SortStable(Collect(status, perm)), err |-> "nil"]

\* found before findTailmonEndpoints was called.
NotCalled == [endpoints |-> <<>>, err |-> "none"]

\* The orders in which a range over a map with the keys ks can meet them.
Orders(ks) ==
    {q \in [1..Cardinality(ks) -> ks] : \A i, j \in 1..Cardinality(ks) : q[i] = q[j] => i = j}

\* A handler calls findTailmonEndpoints on the peers the overlay reports. (A
\* second call on the same peers computes the same function of them.)
FindEndpoints ==
    /\ found = NotCalled
    /\ \E query \in QueryResults : \E perm \in Orders(DOMAIN peers) :
          /\ order' = perm
          /\ found' = findTailmonEndpoints(query, peers, perm)
    /\ UNCHANGED <<tshttpVars, proxyVars, handlerVars, exporterVars, peers>>

\* The host names, address lists and DNS names of the peers lc.Status reports.
HostNames ==
    {Prefix \o <<"n", "/", "h">>,           \* tailmon/<exporter>/<node>
     Prefix \o <<"c">>,                     \* no second segment
     Prefix,                                \* nothing behind the prefix
     Prefix \o <<"a", "/", "b", "/", "c">>, \* a "/" in the node part
     <<"t", "a", "i", "l", "m", "o", "n">>, \* the prefix without its "/"
     <<"o">>}                               \* another service
AddrLists == {<<>>, <<Addr1>>, <<Addr2, Addr6>>, <<Addr6, Addr1>>}
DNSNameOf(k) == <<"p", DigitChars[k + 1]>>

\* status.Peer with n peers, peer k having the host name hs[k] and the
\* addresses as[k].
PeerMap(n, hs, as) ==
    [k \in 1..n |-> [HostName |-> hs[k], TailscaleIPs |-> as[k], DNSName |-> DNSNameOf(k)]]

\* ------------------------------------------------ tailmon: proxy handler
\* The request paths tried, and whether the upstream answers the reverse
\* proxy.
Paths == {"/metrics", "/", "", "/metrics/", "/metric", "/x/metrics"}
UpstreamResults == {"ok", "unreachable"}

Entry(logger, level, msg, path) ==
    [logger |-> logger, level |-> level, msg |-> msg, path |-> path]

\* proxy.ServeHTTP: the request goes to the upstream; when the upstream cannot
\* be reached the reverse proxy logs that on its ErrorLog and answers 502.
Forward(path, up) ==
    /\ upstream' = Append(upstream, path)
    /\ IF up = "ok"
       THEN /\ proxyLog' = Append(proxyLog, Entry("", "info", "accept", path))
            /\ responses' = Append(responses, [status |-> 200, body |-> <<"upstream">>])
       ELSE /\ proxyLog' = Append(Append(proxyLog, Entry("", "info", "accept", path)),
                                  Entry("proxy", "error", "http: proxy error", ""))
            /\ responses' = Append(responses, [status |-> 502, body |-> <<>>])

\* The reject branch: the log entry, http.StatusNotFound and the name.
Reject(path) ==
    /\ upstream' = upstream
    /\ proxyLog' = Append(proxyLog, Entry("", "info", "reject", path))
    /\ responses' = Append(responses,
                           [status |-> StatusNotFound, body |-> proxyName \o <<"\n">>])

\* ProxyServe that forwards what a ServeMux pattern "/metrics/" would also
\* match.
ProxyServeSubtree(path, up) ==
    IF path \in {"/metrics", "/metrics/"} THEN Forward(path, up) ELSE Reject(path)

\* The http.HandlerFunc NewProxyHandler returns, serving a request for path.
ProxyServe(path, up) ==
    IF path = "/metrics" THEN Forward(path, up) ELSE Reject(path)

\* The accept loop hands the proxy handler a request.
ProxyRequest ==
    /\ Len(requests) < MaxProxyRequests
    /\ \E path \in Paths : \E up \in UpstreamResults :
          /\ requests' = Append(requests, path)
          /\ ProxyServe(path, up)
    /\ UNCHANGED <<tshttpVars, discoverVars, handlerVars, exporterVars, proxyName>>

\* ------------------------------------- tailmon-discover: the HTTP handler
\* json.MarshalIndent(endpoints, "", "    "): a nil slice is the document
\* null; else an array with one object per endpoint, which holds the targets
\* and the labels (ip is not exported and is left out).
MarshalIndent(es) ==
    IF es = <<>> THEN <<"null">>
    ELSE <<"[">> \o [i \in 1..Len(es) |-> [targets |-> es[i].Targets, labels |-> es[i].Labels]]
              \o <<"]">>

\* err.Error() of the error a failed overlay call returned.
ErrorText(err) == <<"error: " \o err>>

\* marshalEndpoints that hands back a document together with the error.
marshalEndpointsPartial(query, status, perm) ==
    LET r == findTailmonEndpoints(query, status, perm) IN
    [data |-> MarshalIndent(r.endpoints), err |-> r.err]

\* marshalEndpoints: nil and the error when findTailmonEndpoints failed, else
\* the document.
marshalEndpoints(query, status, perm) ==
    LET r == findTailmonEndpoints(query, status, perm) IN
    IF r.err # "nil" THEN [data |-> <<>>, err |-> r.err]
    ELSE [data |-> MarshalIndent(r.endpoints), err |-> "nil"]

\* An http.ResponseWriter nothing was written to: status 0 stands for "no
\* status line yet", ctype is the content-type the handler put in Header().
NewResponse == [status |-> 0, ctype |-> "", body |-> <<>>]
\* w.WriteHeader(code): the first status written stands.
WriteHeader(w, code) == IF w.status = 0 THEN [w EXCEPT !.status = code] ELSE w
\* w.Write / io.WriteString: writes the status 200 when none was written.
Write(w, data) == [WriteHeader(w, StatusOK) EXCEPT !.body = @ \o data]
\* w.Header().Set("content-type", ...)
SetContentType(w, ct) == [w EXCEPT !.ctype = ct]
\* The handler returned: net/http sends status 200 when it wrote nothing.
Finish(w) == WriteHeader(w, StatusOK)

DiscoverName == <<"tailmon-discover", "\n">>

\* The request paths tried.
DiscoverPaths == {"/", "/metrics", "/metrics/", "/x"}

\* http.ServeMux with the patterns "/" and "/metrics": "/metrics" matches that
\* path alone, "/" every path no other pattern matches.
Route(path) == IF path = "/metrics" THEN "/metrics" ELSE "/"

\* The handler of the pattern "/", which wrote the response [w] and the log
\* entries [log] for request number n.
RootHandler(n, path, query, status, perm) ==
    IF path # "/"
    THEN [w |-> Write(WriteHeader(NewResponse, StatusNotFound), DiscoverName), log |-> <<>>]
    ELSE LET m == marshalEndpoints(query, status, perm)
             failed == Write(WriteHeader(NewResponse, StatusInternalServerError),
                             ErrorText(m.err))
             w1 == IF m.err # "nil" THEN failed ELSE NewResponse
         IN [w |-> Write(SetContentType(w1, "application/json; charset=utf-8"), m.data),
             log |-> IF m.err # "nil"
                     THEN <<[req |-> n, level |-> "error", msg |-> "marshalEndpoints",
                             err |-> m.err]>>
                     ELSE <<>>]

\* The handler of the pattern "/metrics": it returns at once.
MetricsHandler == [w |-> NewResponse, log |-> <<>>]

\* The accept loop hands the mux a request.
DiscoverRequest ==
    /\ Len(dRequests) < MaxDiscoverRequests
    /\ \E path \in DiscoverPaths : \E query \in QueryResults : \E perm \in Orders(DOMAIN peers) :
          LET n == Len(dRequests) + 1
              h == IF Route(path) = "/metrics" THEN MetricsHandler
                   ELSE RootHandler(n, path, query, peers, perm)
              asked == path = "/"
          IN /\ dRequests' = Append(dRequests, [path |-> path, query |-> query, perm |-> perm])
             /\ dResponses' = Append(dResponses, Finish(h.w))
             /\ dLog' = dLog \o h.log
             /\ order' = IF asked THEN perm ELSE order
             /\ found' = IF asked THEN findTailmonEndpoints(query, peers, perm) ELSE found
    /\ UNCHANGED <<tshttpVars, proxyVars, exporterVars, peers>>

\* ------------------------------------------------- tailmon: newExporter
RECURSIVE ParseDigits(_, _)
\* The number the decimal digits ds spell behind the digits that gave acc, or
\* -1 when ds holds another character.
ParseDigits(ds, acc) ==
    IF ds = <<>> THEN acc
    ELSE IF Head(ds) \notin Digits THEN -1
    ELSE ParseDigits(Tail(ds),
                     10 * acc + (CHOOSE d \in 0..9 : DigitChars[d + 1] = Head(ds)))

\* strconv.ParseInt(s, 10, 64): an optional sign and then one decimal digit at
\* least; anything else is a syntax error. (The values tried stay far from the
\* 64-bit range.)
ParseInt(s) ==
    LET signed == s # <<>> /\ Head(s) \in {"+", "-"}
        digits == IF signed THEN Tail(s) ELSE s
        n == ParseDigits(digits, 0)
    IN IF digits = <<>> \/ n < 0 THEN [val |-> 0, err |-> "syntax"]
       ELSE [val |-> IF signed /\ Head(s) = "-" THEN -n ELSE n, err |-> "nil"]

\* What os.Hostname() returns: the host name, or an error.
HostnameResults == {<<"h">>, <<>>}

\* The zero exporter, as returned with an error.
ZeroExporter == [name |-> <<>>, port |-> 0, hostname |-> <<>>]

\* newExporter(value), os.Hostname() returning host (<<>> for an error).
newExporter(v, host) ==
    LET cut == Cut(v, ":")
        port == ParseInt(cut.after)
    IN IF ~cut.found THEN [ep |-> ZeroExporter, err |-> "format"]
       ELSE IF port.err # "nil" THEN [ep |-> ZeroExporter, err |-> port.err]
       ELSE [ep |-> [name |-> cut.before, port |-> port.val,
                     hostname |-> IF host = <<>> THEN Unknown ELSE host],
             err |-> "nil"]

\* parsed before newExporter was called.
NotParsed == [ep |-> ZeroExporter, err |-> "none"]

\* main calls newExporter on a command-line argument.
NewExporter ==
    /\ parsed = NotParsed
    /\ \E host \in HostnameResults : parsed' = newExporter(value, host)
    /\ UNCHANGED <<tshttpVars, discoverVars, proxyVars, handlerVars, value>>

\* The characters the arguments are made of, the values of up to n of them,
\* and some longer values around the ends of the port range.
ValueChars == {"n", ":", "0", "7", "-", "+"}
RECURSIVE ValuesUpTo(_)
ValuesUpTo(n) ==
    IF n = 0 THEN {<<>>}
    ELSE LET shorter == ValuesUpTo(n - 1) IN
         shorter \cup {Append(v, ch) : v \in shorter, ch \in ValueChars}
LongValues ==
    {<<"n", ":", "6", "5", "5", "3", "5">>, <<"n", ":", "6", "5", "5", "3", "6">>,
     <<"n", "o", "d", "e", "-", "e", "x", "p", "o", "r", "t", "e", "r", ":", "9", "1", "0", "0">>,
     <<"n", ":", "0", "0", "0", "8", "0">>, <<"n", ":", "8", "0", ":", "8", "0">>}

\* ------------------------------------------------------------ the process
\* Server.Name as the process sets it.
ServerNames == [a |-> <<"t", "/", "n", "/", "h">>, b |-> <<>>]

NoCalls == [start |-> 0, shutdown |-> 0]

\* No discovery request was served.
DiscoverIdle == peers = <<>> /\ order = <<>> /\ found = NotCalled

\* No discovery request reached the HTTP handler.
HandlerIdle == dRequests = <<>> /\ dLog = <<>> /\ dResponses = <<>>

\* newExporter was not called.
ExporterIdle == value = <<>> /\ parsed = NotParsed

\* No proxy request was served.
ProxyIdle ==
    /\ proxyName = <<>> /\ requests = <<>> /\ proxyLog = <<>>
    /\ upstream = <<>> /\ responses = <<>>

\* The state after the Servers in ms were constructed (&tshttp.Server{...})
\* with the names ns.
ConstructedAs(ms, ns) ==
    /\ managers = ms
    /\ name = ns
    /\ exited = FALSE
    /\ once = [s \in Servers |-> "new"]
    /\ mkdirs = [s \in Servers |-> 0]
    /\ built = [s \in Servers |-> 0]
    /\ tailnet = [s \in Servers |-> NilHandle]
    /\ observed = [s \in Servers |-> {}]
    /\ cancel = [s \in Servers |-> 0]
    /\ sess = [s \in Servers |-> <<>>]
    /\ pollers = [s \in Servers |-> <<>>]
    /\ tsCloses = [s \in Servers |-> 0]
    /\ logs = [s \in Servers |-> [m \in LogMessages |-> 0]]
    /\ calls = [s \in Servers |-> NoCalls]
    /\ returns = [s \in Servers |-> [nil |-> 0, err |-> 0]]
    /\ frame = [c \in Callers |-> IdleFrame]

\* The state after the Servers in ms were constructed with the names of
\* ServerNames.
Constructed(ms) == ConstructedAs(ms, ServerNames)

\* One Server, whose methods two goroutines call in any order.
Init == Constructed({"a"}) /\ DiscoverIdle /\ ProxyIdle /\ HandlerIdle /\ ExporterIdle

Next ==
    \/ \E c \in Callers, s \in Servers : TailnetCall(c, s)
    \/ \E c \in Callers, s \in Servers : StartCall(c, s)
    \/ \E c \in Callers, s \in Servers : ShutdownCall(c, s)
    \/ \E c \in Callers : InitBody(c)
    \/ \E c \in Callers : TailnetReturn(c)
    \/ \E c \in Callers : StartPoller(c)
    \/ \E c \in Callers : StartListen(c)
    \/ \E c \in Callers : StartServe(c)
    \/ \E c \in Callers : ShutdownCheck(c)
    \/ \E c \in Callers : CancelHTTP(c)
    \/ \E c \in Callers : CancelListen(c)
    \/ \E c \in Callers : CancelTailnet(c)
    \/ \E c \in Callers : CancelLog(c)
    \/ \E s \in Servers, i \in 1..MaxStarts : PollClient(s, i)
    \/ \E s \in Servers, i \in 1..MaxStarts : Poll(s, i)
    \/ \E s \in Servers, k \in 1..MaxStarts : ServeBegin(s, k)
    \/ \E s \in Servers, k \in 1..MaxStarts : ServeRequest(s, k)
    \/ \E s \in Servers, k \in 1..MaxStarts : ServeClosed(s, k)
    \/ \E s \in Servers, k \in 1..MaxStarts : ServeFailed(s, k)

Spec == Init /\ [][Next]_vars

\* main, the goroutine that calls Start and then Shutdown in cmd/tailmon.
MainGoroutine == "g1"

\* One Server whose Start and Shutdown main calls one after another, with the
\* polling and accept goroutines these calls launch.
NextPoll ==
    \/ StartCall(MainGoroutine, "a")
    \/ ShutdownCall(MainGoroutine, "a")
    \/ InitBody(MainGoroutine)
    \/ StartPoller(MainGoroutine)
    \/ StartListen(MainGoroutine)
    \/ StartServe(MainGoroutine)
    \/ ShutdownCheck(MainGoroutine)
    \/ CancelHTTP(MainGoroutine)
    \/ CancelListen(MainGoroutine)
    \/ CancelTailnet(MainGoroutine)
    \/ CancelLog(MainGoroutine)
    \/ \E i \in 1..MaxStarts : PollClient("a", i)
    \/ \E i \in 1..MaxStarts : Poll("a", i)
    \/ \E k \in 1..MaxStarts : ServeBegin("a", k)
    \/ \E k \in 1..MaxStarts : ServeRequest("a", k)
    \/ \E k \in 1..MaxStarts : ServeClosed("a", k)
    \/ \E k \in 1..MaxStarts : ServeFailed("a", k)

\* The Go scheduler runs every goroutine that can run: a polling goroutine
\* that is not blocked takes its next step.
PollFairness ==
    \A i \in 1..MaxStarts : WF_vars(PollClient("a", i)) /\ WF_vars(Poll("a", i))

SpecPoll == Init /\ [][NextPoll]_vars /\ PollFairness

\* The names the Servers of one process are given.
ManagerNames ==
    {<<"a", "/", "b">>, <<"a", ".", "b">>, <<"a", "-", "b">>, <<"a", "b">>, <<>>}

\* Two Servers with distinct names and the same state directory, as main
\* constructs them for two exporters.
InitManagers ==
    /\ \E ns \in [Servers -> ManagerNames] :
          ns["a"] # ns["b"] /\ ConstructedAs(Servers, ns)
    /\ DiscoverIdle /\ ProxyIdle /\ HandlerIdle /\ ExporterIdle

\* Tailnet and Start are called on the two Servers in any order, from two
\* goroutines.
NextManagers ==
    \/ \E c \in Callers, s \in Servers : TailnetCall(c, s)
    \/ \E c \in Callers, s \in Servers : StartCall(c, s)
    \/ \E c \in Callers : InitBody(c)
    \/ \E c \in Callers : TailnetReturn(c)
    \/ \E c \in Callers : StartPoller(c)
    \/ \E c \in Callers : StartListen(c)
    \/ \E c \in Callers : StartServe(c)

SpecManagers == InitManagers /\ [][NextManagers]_vars

\* tailmon-discover's enumeration, for every peer list within the bounds.
InitDiscover ==
    /\ Constructed({}) /\ ProxyIdle /\ HandlerIdle /\ ExporterIdle
    /\ \E n \in 0..MaxPeers : \E hs \in [1..n -> HostNames] : \E as \in [1..n -> AddrLists] :
          peers = PeerMap(n, hs, as)
    /\ order = <<>> /\ found = NotCalled

NextDiscover == FindEndpoints

SpecDiscover == InitDiscover /\ [][NextDiscover]_vars

\* tailmon-discover's HTTP handler, for every sequence of requests within the
\* bounds.
InitHandler ==
    /\ Constructed({}) /\ ProxyIdle /\ HandlerIdle /\ ExporterIdle
    /\ \E n \in 0..MaxHandlerPeers : \E hs \in [1..n -> HostNames] : \E as \in [1..n -> AddrLists] :
          peers = PeerMap(n, hs, as)
    /\ order = <<>> /\ found = NotCalled

NextHandler == DiscoverRequest

SpecHandler == InitHandler /\ [][NextHandler]_vars

\* tailmon's exporter argument, for every value within the bounds.
InitExporter ==
    /\ Constructed({}) /\ DiscoverIdle /\ ProxyIdle /\ HandlerIdle
    /\ value \in ValuesUpTo(MaxValueLen) \cup LongValues
    /\ parsed = NotParsed

NextExporter == NewExporter

SpecExporter == InitExporter /\ [][NextExporter]_vars

\* tailmon's proxy handler, for every sequence of requests within the bounds.
InitProxy ==
    /\ Constructed({}) /\ DiscoverIdle /\ HandlerIdle /\ ExporterIdle
    /\ proxyName \in {Prefix \o <<"n", "/", "h">>, Prefix \o <<"n", "/">> \o Unknown}
    /\ requests = <<>> /\ proxyLog = <<>> /\ upstream = <<>> /\ responses = <<>>

NextProxy == ProxyRequest

SpecProxy == InitProxy /\ [][NextProxy]_vars

\* ================================================================ claims
\* The goroutines that are at one of the places pcs of a call on Server s.
At(s, pcs) == {c \in Callers : frame[c].srv = s /\ frame[c].pc \in pcs}

RECURSIVE SumOver(_, _)
\* The sum of field f (one of "closes", "shutdowns") over the sessions ss.
SumOver(ss, f) ==
    IF ss = <<>> THEN 0
    ELSE (IF f = "closes" THEN Head(ss).closes ELSE Head(ss).shutdowns) + SumOver(Tail(ss), f)

\* C1: whatever Tailnet and Start calls run on a Server, one after another or
\* at the same time, init creates the state directory once and constructs the
\* tsnet.Server once; no caller gets past the Once before that is done, and
\* every handle a caller is given or uses is that one tsnet.Server.
C1_InitRunsOnce ==
    \A s \in Servers :
        /\ mkdirs[s] <= 1 /\ built[s] <= 1
        /\ once[s] = "done" => mkdirs[s] = 1 /\ built[s] = 1 /\ tailnet[s].id = 1
        /\ At(s, {"t_ret", "s_go", "s_listen", "s_serve"}) # {} => once[s] = "done"
        /\ observed[s] \subseteq {tailnet[s]}
        /\ NilHandle \notin observed[s]

\* C1 witness: a Tailnet call is about to return the handle while two Start
\* calls were made on the same Server, one of them still running.
C1_Witness ==
    \E s \in Servers :
        /\ calls[s].start = 2 /\ observed[s] # {}
        /\ At(s, {"t_ret"}) # {} /\ At(s, {"s_go", "s_listen", "s_serve"}) # {}

\* Nothing of Server s that the shutdown closure acts on was touched.
Untouched(s) ==
    /\ tsCloses[s] = 0 /\ logs[s]["shutdown"] = 0 /\ calls[s].shutdown = 0
    /\ \A k \in DOMAIN sess[s] :
          sess[s][k].shutdowns = 0 /\ sess[s][k].closes = 0 /\ sess[s][k].ln = "open"

\* C2: Shutdown runs the closure exactly when a Start of that Server has
\* returned nil. Until then nothing the closure acts on is touched, and a
\* Shutdown that reads s.cancel then returns and leaves the listener, the
\* http.Server, the tsnet.Server and the log as they were.
C2_ShutdownIffStarted ==
    /\ [](\A s \in Servers : returns[s].nil = 0 => Untouched(s))
    /\ [][\A c \in Callers :
            (frame[c].pc = "sh_check" /\ frame'[c].pc # "sh_check") =>
                LET s == frame[c].srv IN
                IF returns[s].nil > 0
                THEN frame'[c].pc = "c_http" /\ frame'[c].k = cancel[s]
                ELSE /\ frame'[c].pc = "idle"
                     /\ UNCHANGED <<sess, tsCloses, logs, cancel, tailnet, pollers, calls>>]_vars

\* C2 witness: a Shutdown is reading s.cancel after a Start of that Server
\* returned a bind error and none returned nil.
C2_Witness ==
    \E c \in Callers :
        /\ frame[c].pc = "sh_check"
        /\ returns[frame[c].srv].err >= 1 /\ returns[frame[c].srv].nil = 0
        /\ At(frame[c].srv, {"init", "s_go", "s_listen", "s_serve"}) = {}

\* C3: the bind step of Start either fails, and then Start returns the error
\* with no session, no http.Server, no closure and no accept goroutine made,
\* or succeeds, and then Start goes on to make the http.Server, capture the
\* closure over this call's session, launch the accept goroutine and return
\* nil. So the Starts that returned nil are the sessions that have an
\* http.Server and an accept goroutine, and s.cancel is set exactly when one
\* returned nil.
C3_BindErrorReturned ==
    /\ [](\A s \in Servers :
            /\ Cardinality({k \in DOMAIN sess[s] : sess[s][k].http # "none"}) = returns[s].nil
            /\ Cardinality({k \in DOMAIN sess[s] : sess[s][k].serve # "none"}) = returns[s].nil
            /\ Len(sess[s]) = returns[s].nil + Cardinality(At(s, {"s_serve"}))
            /\ (cancel[s] # 0) <=> (returns[s].nil > 0))
    /\ [][\A c \in Callers :
            LET s == frame[c].srv IN
            /\ (frame[c].pc = "s_listen" /\ frame'[c].pc # "s_listen") =>
                  \/ /\ frame'[c].pc = "idle"
                     /\ returns'[s] = [returns[s] EXCEPT !.err = @ + 1]
                     /\ sess' = sess /\ cancel' = cancel
                  \/ /\ frame'[c].pc = "s_serve"
                     /\ Len(sess'[s]) = Len(sess[s]) + 1 /\ frame'[c].k = Len(sess'[s])
                     /\ returns' = returns /\ cancel' = cancel
            /\ (frame[c].pc = "s_serve" /\ frame'[c].pc # "s_serve") =>
                  /\ frame'[c].pc = "idle"
                  /\ returns'[s] = [returns[s] EXCEPT !.nil = @ + 1]
                  /\ cancel'[s] = frame[c].k
                  /\ sess'[s][frame[c].k].http = "new"
                  /\ sess'[s][frame[c].k].serve = "launched"]_vars

\* C3 witness: on one Server a Start returned a bind error and a Start
\* returned nil.
C3_Witness ==
    \E s \in Servers : returns[s].err >= 1 /\ returns[s].nil >= 1

\* C4: the closure releases in the order http.Server (under the 1 second
\* deadline), listener, tsnet.Server, log: a run that is at listen.Close has
\* shut the http.Server down, one at tailnet.Close has closed the listener,
\* one at the log has closed the tsnet.Server; when Shutdown returns all three
\* are released; and an accept goroutine that ends once the http.Server was
\* shut down logs "shutting down", never "http.Serve".
C4_ShutdownOrder ==
    /\ [](\A c \in Callers :
            LET s == frame[c].srv
                k == frame[c].k
            IN /\ frame[c].pc \in {"c_listen", "c_tailnet", "c_log"} =>
                     /\ sess[s][k].http = "shutdown"
                     /\ sess[s][k].timeout = ShutdownTimeout
               /\ frame[c].pc \in {"c_tailnet", "c_log"} =>
                     sess[s][k].ln = "closed" /\ sess[s][k].closes >= 1
               /\ frame[c].pc = "c_log" => tsCloses[s] >= 1)
    /\ [](\A s \in Servers :
            /\ logs[s]["shutdown"] <= tsCloses[s]
            /\ tsCloses[s] <= SumOver(sess[s], "closes")
            /\ SumOver(sess[s], "closes") <= SumOver(sess[s], "shutdowns"))
    /\ [][\A c \in Callers :
            (frame[c].pc = "c_log" /\ frame'[c].pc # "c_log") =>
                LET s == frame[c].srv
                    k == frame[c].k
                IN /\ frame'[c].pc = "idle"
                   /\ logs'[s]["shutdown"] = logs[s]["shutdown"] + 1
                   /\ sess'[s][k].http = "shutdown" /\ sess'[s][k].ln = "closed"
                   /\ tsCloses'[s] >= 1]_vars
    /\ [][\A s \in Servers : \A k \in DOMAIN sess[s] :
            (/\ sess[s][k].http = "shutdown"
             /\ sess[s][k].serve \in {"launched", "serving"}
             /\ sess'[s][k].serve # sess[s][k].serve) =>
                /\ sess'[s][k].serve = "closed"
                /\ logs'[s]["shutting down"] = logs[s]["shutting down"] + 1
                /\ logs'[s]["http.Serve"] = logs[s]["http.Serve"]]_vars

\* C4 witness: a Shutdown has returned and the accept goroutine of the session
\* it released, which was serving, has ended with "shutting down".
C4_Witness ==
    \E s \in Servers : \E k \in DOMAIN sess[s] :
        /\ logs[s]["shutdown"] >= 1 /\ cancel[s] = k
        /\ sess[s][k].serve = "closed" /\ sess[s][k].served >= 1
        /\ logs[s]["shutting down"] >= 1

\* C5: the closure is never cleared and never guarded: s.cancel, once set,
\* stays set; a Shutdown that reads it runs the closure even when the
\* closure's http.Server was shut down before; and each run calls
\* httpsrv.Shutdown, listen.Close and tailnet.Close again, closed or not.
C5_ShutdownNotIdempotent ==
    /\ [][\A s \in Servers : cancel[s] # 0 => cancel'[s] # 0]_vars
    /\ [][\A c \in Callers :
            LET s == frame[c].srv
                k == frame[c].k
            IN /\ (frame[c].pc = "sh_check" /\ frame'[c].pc # "sh_check" /\ cancel[s] # 0) =>
                     frame'[c].pc = "c_http" /\ frame'[c].k = cancel[s]
               /\ (frame[c].pc = "c_http" /\ frame'[c].pc # "c_http") =>
                     sess'[s][k].shutdowns = sess[s][k].shutdowns + 1
               /\ (frame[c].pc = "c_listen" /\ frame'[c].pc # "c_listen") =>
                     sess'[s][k].closes = sess[s][k].closes + 1
               /\ (frame[c].pc = "c_tailnet" /\ frame'[c].pc # "c_tailnet") =>
                     tsCloses'[s] = tsCloses[s] + 1]_vars
    /\ [](\A s \in Servers :
            /\ tsCloses[s] = calls[s].shutdown - Cardinality(At(s, {"c_http", "c_listen", "c_tailnet"}))
            /\ logs[s]["shutdown"] = tsCloses[s] - Cardinality(At(s, {"c_log"})))

\* C5 witness: two Shutdowns have returned, and the same session's listener
\* and the tsnet.Server were each closed twice.
C5_Witness ==
    \E s \in Servers : \E k \in DOMAIN sess[s] :
        /\ logs[s]["shutdown"] = 2 /\ tsCloses[s] = 2
        /\ sess[s][k].closes = 2 /\ sess[s][k].shutdowns = 2

\* C6: no step of Start waits for a polling goroutine, and handling a request
\* does not either: in every state a Start that is at its `go` statement, its
\* bind or its last step can take that step, and an accept loop that serves an
\* open listener can handle a request, whatever the polling goroutines have
\* seen.
C6_StartNeverWaits ==
    /\ \A c \in Callers :
          /\ (~exited /\ frame[c].pc = "s_go") => ENABLED StartPoller(c)
          /\ (~exited /\ frame[c].pc = "s_listen") => ENABLED StartListen(c)
          /\ (~exited /\ frame[c].pc = "s_serve") => ENABLED StartServe(c)
    /\ \A s \in Servers : \A k \in DOMAIN sess[s] :
          (/\ ~exited /\ sess[s][k].serve = "serving" /\ sess[s][k].http = "new"
           /\ sess[s][k].ln = "open" /\ sess[s][k].served < MaxRequests) =>
              ENABLED ServeRequest(s, k)

\* C6 witness: Start has returned nil and a request was handled while no
\* polling goroutine of that Server has seen Running, one of them having
\* logged that authentication is needed.
C6_Witness ==
    \E s \in Servers : \E k \in DOMAIN sess[s] :
        /\ returns[s].nil >= 1 /\ sess[s][k].served >= 1
        /\ \A i \in DOMAIN pollers[s] : pollers[s][i].pc \in {"client", "poll"}
        /\ \E i \in DOMAIN pollers[s] :
              /\ pollers[s][i].pc = "poll" /\ Len(pollers[s][i].out) = 2
              /\ pollers[s][i].out[2].msg = "Needs authentication"

\* ---------------------------------------------------- claims: discovery
\* The peers findTailmonEndpoints is to report: the host name starts with
\* "tailmon/" and there is an address.
Qualifies(v) ==
    /\ Len(v.HostName) >= Len(Prefix) /\ SubSeq(v.HostName, 1, Len(Prefix)) = Prefix
    /\ v.TailscaleIPs # <<>>

\* The places of the returned sequence that hold peer k's endpoint.
PlacesOf(k) ==
    {i \in 1..Len(found.endpoints) : found.endpoints[i].Labels[DNSNameLabel] = peers[k].DNSName}

\* C7: a successful findTailmonEndpoints returns one endpoint for each peer
\* whose host name starts with "tailmon/" and that has an address, none for
\* any other peer, and each endpoint has one target, made of the peer's first
\* address and port 80.
C7_OneEndpointPerQualifyingPeer ==
    found.err = "nil" =>
        /\ Len(found.endpoints) = Cardinality({k \in DOMAIN peers : Qualifies(peers[k])})
        /\ \A k \in DOMAIN peers :
              IF Qualifies(peers[k])
              THEN /\ Cardinality(PlacesOf(k)) = 1
                   /\ \A i \in PlacesOf(k) :
                         /\ found.endpoints[i].ip = peers[k].TailscaleIPs[1]
                         /\ found.endpoints[i].Targets =
                               <<formatAddr(peers[k].TailscaleIPs[1], ScrapePort)>>
              ELSE PlacesOf(k) = {}

\* C7 witness: the enumeration succeeded on peers among which are one with the
\* prefix and no address, one with addresses and no prefix, and one with the
\* prefix and two addresses.
C7_Witness ==
    /\ found.err = "nil"
    /\ \E k \in DOMAIN peers : HasPrefix(peers[k].HostName, Prefix) /\ peers[k].TailscaleIPs = <<>>
    /\ \E k \in DOMAIN peers : ~HasPrefix(peers[k].HostName, Prefix) /\ peers[k].TailscaleIPs # <<>>
    /\ \E k \in DOMAIN peers : Qualifies(peers[k]) /\ Len(peers[k].TailscaleIPs) = 2

\* What follows "tailmon/" in peer k's host name.
Remainder(k) == SubSeq(peers[k].HostName, Len(Prefix) + 1, Len(peers[k].HostName))

\* C8 (as claimed): the endpoint of a qualifying peer whose host name has no
\* "/" behind the prefix has the node name "unknown" and, as its exporter
\* name, what follows the prefix.
C8_ExporterIsRemainder ==
    found.err = "nil" =>
        \A k \in DOMAIN peers :
            (Qualifies(peers[k]) /\ \A i \in 1..Len(Remainder(k)) : Remainder(k)[i] # "/") =>
                \A i \in PlacesOf(k) :
                    /\ found.endpoints[i].Labels[NodeNameLabel] = Unknown
                    /\ found.endpoints[i].Labels[ExporterNameLabel] = Remainder(k)

\* The first addresses of the qualifying peers differ from one another.
DistinctFirstAddrs ==
    \A j, k \in DOMAIN peers :
        (Qualifies(peers[j]) /\ Qualifies(peers[k]) /\ j # k) =>
            peers[j].TailscaleIPs[1] # peers[k].TailscaleIPs[1]

\* C9: whatever order the peers are met in, the endpoints returned ascend by
\* first address (none is Less than one before it), and when the first
\* addresses differ from one another every order gives this same sequence.
C9_SortedByAddress ==
    found.err = "nil" =>
        /\ \A i, j \in 1..Len(found.endpoints) :
              i < j => ~Less(found.endpoints[j].ip, found.endpoints[i].ip)
        /\ DistinctFirstAddrs =>
              \A perm \in Orders(DOMAIN peers) :
                  findTailmonEndpoints("ok", peers, perm).endpoints = found.endpoints

\* C9 witness: three endpoints with different first addresses, an IPv6 one
\* among them, were returned in another order than the peers were met in.
C9_Witness ==
    /\ found.err = "nil" /\ Len(found.endpoints) = 3 /\ DistinctFirstAddrs
    /\ found.endpoints # Collect(peers, order)
    /\ found.endpoints[1].ip = Addr1 /\ found.endpoints[2].ip = Addr2
    /\ found.endpoints[3].ip = Addr6

\* ------------------------------------------------------- claims: proxy
\* C10: the proxy handler sends a request to the upstream exactly when its
\* path is "/metrics"; any other request is answered 404 with the name and a
\* newline; and each request is logged once, as "accept" or as "reject", with
\* its path.
C10_OnlyMetricsForwarded ==
    /\ Len(responses) = Len(requests)
    /\ upstream = SelectSeq(requests, LAMBDA q : q = "/metrics")
    /\ \A i \in 1..Len(requests) :
          requests[i] # "/metrics" =>
              /\ responses[i].status = StatusNotFound
              /\ responses[i].body = proxyName \o <<"\n">>
    /\ LET decisions == SelectSeq(proxyLog, LAMBDA e : e.msg \in {"accept", "reject"})
       IN /\ Len(decisions) = Len(requests)
          /\ \A i \in 1..Len(requests) :
                /\ decisions[i].path = requests[i]
                /\ decisions[i].level = "info"
                /\ decisions[i].msg = (IF requests[i] = "/metrics" THEN "accept" ELSE "reject")

\* C10 witness: "/metrics", "/" and "/metrics/" were requested, and the
\* upstream was asked once.
C10_Witness ==
    /\ Len(requests) = 3 /\ Len(upstream) = 1
    /\ \E i, j, k \in 1..3 :
          requests[i] = "/metrics" /\ requests[j] = "/" /\ requests[k] = "/metrics/"

\* C11 (as claimed): the discovery endpoint answers every request whose path
\* is not "/" with status 404 and the body "tailmon-discover\n".
C11_NonRootIs404 ==
    \A i \in DOMAIN dRequests :
        dRequests[i].path # "/" =>
            /\ dResponses[i].status = StatusNotFound
            /\ dResponses[i].body = DiscoverName

\* C12: a request for "/" whose overlay query fails is answered with status
\* 500 and the error text and nothing else as the body, and logs the error in
\* one entry; whatever came before it, a request for "/" whose query succeeds
\* is answered with status 200 and the JSON document, and logs nothing.
C12_QueryFailureIs500 ==
    \A i \in DOMAIN dRequests :
        LET r == dRequests[i]
            mine == {j \in DOMAIN dLog : dLog[j].req = i}
        IN r.path = "/" =>
              IF r.query # "ok"
              THEN /\ dResponses[i].status = StatusInternalServerError
                   /\ dResponses[i].body = ErrorText(r.query)
                   /\ Cardinality(mine) = 1
                   /\ \A j \in mine : dLog[j].level = "error" /\ dLog[j].err = r.query
              ELSE /\ dResponses[i].status = StatusOK
                   /\ dResponses[i].body =
                          MarshalIndent(SortStable(Collect(peers, r.perm)))
                   /\ mine = {}

\* C12 witness: a request whose query failed was followed by one whose query
\* succeeded and found an endpoint.
C12_Witness ==
    /\ Len(dRequests) = 2
    /\ dRequests[1].path = "/" /\ dRequests[1].query = "Status"
    /\ dRequests[2].path = "/" /\ dRequests[2].query = "ok"
    /\ dResponses[1].status = StatusInternalServerError
    /\ dResponses[2].status = StatusOK /\ Len(dResponses[2].body) = 3
    /\ Len(dLog) = 1

\* C13 (as claimed): an exporter newExporter returns without an error has a
\* name that is not empty and a port in 1..65535.
C13_ParseValidates ==
    parsed.err = "nil" =>
        /\ parsed.ep.name # <<>>
        /\ parsed.ep.port >= 1 /\ parsed.ep.port <= 65535

\* ------------------------------------------- claims: the polling goroutine
\* Polling goroutine i of Server s is in its loop.
InLoop(s, i) == i \in DOMAIN pollers[s] /\ pollers[s][i].pc = "poll"
\* It has left the loop.
LoopDone(s, i) == i \in DOMAIN pollers[s] /\ pollers[s][i].pc = "done"
\* This step is an iteration of its loop.
Iterates(s, i) == InLoop(s, i) /\ pollers'[s][i] # pollers[s][i]
\* The entries with the message msg among the entries out.
Entries(out, msg) == {j \in DOMAIN out : out[j].msg = msg}
\* The iteration this step makes logs a status whose BackendState is Running.
SeesRunning(s, i) ==
    \E j \in Entries(pollers'[s][i].out, "status") : pollers'[s][i].out[j].state = "Running"

\* C14: with the polling goroutines scheduled fairly, a loop whose status
\* queries from some point on all succeed and report Running comes to its end,
\* and has then logged "tailnet running" once, in its last iteration; an
\* iteration whose query failed leaves the goroutine in the loop, where the
\* next iteration can follow.
C14_RunningEndsLoop ==
    /\ \A i \in 1..MaxStarts :
          (<>[][Iterates("a", i) => SeesRunning("a", i)]_vars)
              => (InLoop("a", i) ~> LoopDone("a", i))
    /\ [](\A i \in 1..MaxStarts :
             /\ LoopDone("a", i) =>
                   Cardinality(Entries(pollers["a"][i].out, "tailnet running")) = 1
             /\ InLoop("a", i) =>
                   /\ Entries(pollers["a"][i].out, "tailnet running") = {}
                   /\ ~exited => ENABLED Poll("a", i))
    /\ [][\A i \in 1..MaxStarts :
             /\ LoopDone("a", i) => pollers'["a"][i] = pollers["a"][i]
             /\ (Iterates("a", i)
                    /\ Entries(pollers'["a"][i].out, "StatusWithoutPeers") # {})
                  => InLoop("a", i)']_vars

\* C14 witness: the loop of the first Start call has ended with Running while
\* the loop of a second one goes on after a failed query.
C14_Witness ==
    /\ LoopDone("a", 1)
    /\ InLoop("a", 2) /\ Entries(pollers["a"][2].out, "StatusWithoutPeers") # {}

\* The status a polling goroutine logged in its latest iteration, if any.
StatusOf(out) == {out[j] : j \in Entries(out, "status")}

C16_AuthLoggedEveryPoll ==
    [][\A i \in 1..MaxStarts :
          Iterates("a", i) =>
             LET out == pollers'["a"][i].out
                 auth == Entries(out, "Needs authentication")
             IN \A e \in StatusOf(out) :
                   IF e.state = "Running" THEN auth = {}
                   ELSE IF e.url # ""
                   THEN /\ Cardinality(auth) = 1
                        /\ \A j \in auth : out[j].level = "error" /\ out[j].url = e.url
                        /\ InLoop("a", i)'
                   ELSE auth = {}]_vars

\* C16 witness: one loop has ended on a Running status that still carried an
\* AuthURL; another is in the loop and has just logged "Needs authentication".
C16_Witness ==
    /\ LoopDone("a", 1)
    /\ \E e \in StatusOf(pollers["a"][1].out) : e.state = "Running" /\ e.url # ""
    /\ InLoop("a", 2) /\ Entries(pollers["a"][2].out, "Needs authentication") # {}

\* The places of a Shutdown call.
ShutdownPcs == {"sh_check", "c_http", "c_listen", "c_tailnet", "c_log"}

\* C17: no step of Shutdown or of its closure changes a polling goroutine; a
\* goroutine in its loop can make its next iteration however often the
\* tsnet.Server was closed, and stays in the loop in every step that is not an
\* iteration of its own that sees Running.
C17_ShutdownLeavesLoop ==
    /\ [][(frame[MainGoroutine].pc \in ShutdownPcs /\ frame' # frame)
             => pollers' = pollers]_vars
    /\ [](\A i \in 1..MaxStarts :
             (InLoop("a", i) /\ tsCloses["a"] > 0 /\ ~exited) => ENABLED Poll("a", i))
    /\ [][\A i \in 1..MaxStarts :
             (InLoop("a", i) /\ ~(Iterates("a", i) /\ SeesRunning("a", i)))
                => InLoop("a", i)']_vars

\* C17 witness: Shutdown has run the closure and returned, the tsnet.Server
\* is closed, and a polling goroutine is in its loop, not having seen Running.
C17_Witness ==
    /\ calls["a"].shutdown >= 1 /\ tsCloses["a"] >= 1 /\ logs["a"]["shutdown"] >= 1
    /\ frame[MainGoroutine].pc = "idle"
    /\ InLoop("a", 1) /\ pollers["a"][1].out # <<>>

\* C20: every Start call that got past its `go` statement has launched one
\* polling goroutine, whether the bind then fails or not; while s.cancel is
\* nil the tsnet.Server is not closed, and no step of the calling goroutine,
\* Shutdown included, changes a polling goroutine that was launched.
C20_PollerOutlivesBindError ==
    /\ [](/\ Len(pollers["a"]) = returns["a"].nil + returns["a"].err
                                   + Cardinality(At("a", {"s_listen", "s_serve"}))
          /\ cancel["a"] = 0 => tsCloses["a"] = 0)
    /\ [][frame' # frame =>
             /\ Len(pollers'["a"]) >= Len(pollers["a"])
             /\ \A i \in DOMAIN pollers["a"] : pollers'["a"][i] = pollers["a"][i]]_vars

\* C20 witness: Start has returned a bind error and no closure was captured;
\* Shutdown is called and finds s.cancel nil while the polling goroutine of
\* that Start call is in its loop.
C20_Witness ==
    /\ returns["a"] = [nil |-> 0, err |-> 1] /\ cancel["a"] = 0
    /\ frame[MainGoroutine].pc = "sh_check"
    /\ InLoop("a", 1) /\ Len(pollers["a"]) = 1

\* ------------------------------------------------ claims: several Servers
\* C18 (as claimed): two Servers of one process with distinct names and the
\* same state directory hand their tsnet.Servers distinct directories.
C18_DistinctSubdirs ==
    \A s, r \in managers :
        (s # r /\ once[s] = "done" /\ once[r] = "done") =>
            tailnet[s].Dir # tailnet[r].Dir

\* C19: each Server's init runs once however the calls on the Servers of the
\* process interleave: no caller gets past a Server's Once before that
\* Server's own init is done, a Server whose init has not run has no handle
\* whatever the others did, and a Server whose init is done has the one
\* tsnet.Server built for it, with its own name as the hostname and its own
\* state subdirectory.
C19_InitGuardPerServer ==
    \A s \in managers :
        /\ mkdirs[s] <= 1 /\ built[s] <= 1
        /\ At(s, {"t_ret", "s_go", "s_listen", "s_serve"}) # {} => once[s] = "done"
        /\ once[s] = "new" => built[s] = 0 /\ tailnet[s] = NilHandle
        /\ once[s] = "done" =>
              /\ mkdirs[s] = 1 /\ built[s] = 1
              /\ tailnet[s] = [id |-> 1, Dir |-> StateSubdir(StateDir, name[s]),
                               Hostname |-> name[s]]
        /\ observed[s] \subseteq {tailnet[s]} /\ NilHandle \notin observed[s]

\* C19 witness: both Servers were started, the second while the init of the
\* first was running in another goroutine, and each has its own handle.
C19_Witness ==
    /\ once["a"] = "running" /\ once["b"] = "done"
    /\ frame["g1"].srv # frame["g2"].srv
    /\ frame["g1"].pc \in {"init", "s_listen"} /\ frame["g2"].pc \in {"init", "s_listen"}
    /\ tailnet["b"].Hostname = name["b"] /\ name["a"] # name["b"]
    /\ calls["b"].start = 2

====
